---- MODULE Spec2Model ----
(***************************************************************************)
(* A model of the corrective RAG pipeline of rag_system.py: the graph      *)
(* retrieve -> generate -> verify -> (correct -> verify)* -> finalize that *)
(* LegalRAGSystem.query runs, the decision function should_correct, and    *)
(* the ingestion path of document_processor.py that fills the index the    *)
(* retrieve node searches.                                                 *)
(*                                                                         *)
(* Confidences and the confidence threshold are kept in tenths (7 is 0.7). *)
(* The language model is an environment: every text it can answer with is  *)
(* drawn from a small set, and every call to it may raise.                 *)
(***************************************************************************)
EXTENDS Integers, Sequences, FiniteSets, TLC

VARIABLES
    min_confidence_threshold,   \* Config.MIN_CONFIDENCE_THRESHOLD, in tenths
    max_correction_iterations,  \* Config.MAX_CORRECTION_ITERATIONS
    vectorstore,                \* DocumentProcessor.vectorstore: NoStore or the indexed chunks
    processed_doc,              \* DocumentProcessor.processed_doc: file hash -> chunks
    pc,                         \* the node the graph runs next, or idle / done / failed
    state,                      \* the RAGState threaded through the nodes
    steps,                      \* supersteps the running graph has taken
    response,                   \* the RAGResponse query returned, or NoResponse
    failure,                    \* which call raised, "" while none did
    last_result,                \* the dictionary the last process_uploaded_file returned
    ingested,                   \* history: the files process_uploaded_file has indexed
    batch,                      \* the last process_documents call: its paths, its results, how it ended
    run,                        \* the query() calls in flight side by side, by caller
    memory,                     \* self.memory: the checkpoint kept for each thread_id
    app,                        \* LegalRAGApp(): "none", "running" or "failed"
    api_key,                    \* Config.HUGGINGFACE_API_KEY is set
    uploaded_files,             \* LegalRAGApp.uploaded_files
    reply,                      \* what the last handler of the app returned
    cleared,                    \* history: clear_documents has run
    ingested_before,            \* history: the files indexed when it last ran
    genCalls,                   \* history: Generator invocations of this query
    verCalls,                   \* history: Verifier invocations of this query
    corCalls,                   \* history: Corrector invocations of this query
    lastNode,                   \* history: the node that completed last
    prevNode,                   \* history: the node that completed before lastNode
    lastVerdict,                \* history: the verifier output the last verify decoded
    examined,                   \* history: the answer the last verify was shown
    firstGood,                  \* history: index of the first VERIFIED verdict at or above the threshold, 0 if none
    allBad                      \* history: every verdict so far was NEEDS_CORRECTION or below the threshold

vars == << min_confidence_threshold, max_correction_iterations, vectorstore,
           processed_doc, pc, state, steps, response, failure, last_result,
           ingested, batch, run, memory, app, api_key, uploaded_files, reply,
           cleared, ingested_before, genCalls,
           verCalls, corCalls, lastNode, prevNode, lastVerdict, examined,
           firstGood, allBad >>

(***************************************************************************)
(* Bounds of the model.                                                    *)
(***************************************************************************)
\* the largest max_correction_iterations a configuration is drawn with
MaxIterations == 2

\* supersteps one graph run may take before the graph runtime gives up with
\* a recursion error (query passes no recursion_limit, so the runtime's
\* default applies; the model uses a smaller limit than the runtime's)
RecursionLimit == 7

\* the longest list of paths handed to process_documents
MaxBatch == 2

(***************************************************************************)
(* Configuration (config.py).                                              *)
(***************************************************************************)
\* valid thresholds, in tenths: the bounds of [0,1] and the configured 0.7
Thresholds == {0, 7, 10}

MAX_RETRIEVAL_DOCS == 5

(***************************************************************************)
(* The corpus: files a user may upload, and the chunks the splitter cuts   *)
(* them into.                                                              *)
(***************************************************************************)
Files == {"lease.txt", "nda.pdf", "notes.exe", "gone.txt"}

\* Path(file_path).exists()
FileExists(f) == f # "gone.txt"

\* file_path.suffix.lower()
Suffix(f) ==
    CASE f = "lease.txt" -> ".txt"
      [] f = "gone.txt"  -> ".txt"
      [] f = "nda.pdf"   -> ".pdf"
      [] OTHER           -> ".exe"

\* len(doc.page_content)
ContentLen(text) ==
    CASE text = "rent"    -> 4
      [] text = "deposit" -> 7
      [] OTHER            -> 9

\* the chunks text_splitter.split_documents cuts a loaded file into, each
\* carrying the source name load_documents wrote into its metadata
ChunksOf(f) ==
    CASE f = "lease.txt" -> << [page_content |-> "rent", source |-> "lease.txt"],
                               [page_content |-> "deposit", source |-> "lease.txt"] >>
      [] f = "nda.pdf"   -> << [page_content |-> "nondisclosure", source |-> "nda.pdf"] >>
      [] OTHER           -> << >>

\* self.vectorstore = None
NoStore == [exists |-> FALSE, docs |-> << >>]

(***************************************************************************)
(* document_processor.py: ingestion and search.                            *)
(***************************************************************************)
\* hashlib.md5().hexdigest() of no data
EmptyDigest == "d41d8cd98f00b204e9800998ecf8427e"

\* get_file_hash: the loop runs over filter(<lambda>, b""), an empty
\* iterable, so no byte of the file is ever fed to the digest
get_file_hash(f) == EmptyDigest

\* load_documents: the documents of a supported file; an unsupported suffix
\* raises inside the try block, whose handler only logs, so the call
\* returns None
load_documents(f) ==
    IF Suffix(f) \in {".pdf", ".docx", ".txt"}
    THEN [loaded |-> TRUE, docs |-> ChunksOf(f)]
    ELSE [loaded |-> FALSE, docs |-> << >>]

\* add_docs_to_vectorstore / create_vectorstore
add_docs_to_vectorstore(store, chunks) ==
    IF ~store.exists
    THEN [exists |-> TRUE, docs |-> chunks]
    ELSE [exists |-> TRUE, docs |-> store.docs \o chunks]

\* the result dictionary of a file that could not be processed
FailedResult ==
    [success |-> FALSE, message |-> "Error processing file",
     chunks_added |-> 0, total_chunks |-> 0]

\* process_uploaded_file that indexes the file without looking it up in
\* processed_doc first
process_uploaded_file_again(dp, f) ==
    IF ~FileExists(f) \/ ~load_documents(f).loaded
    THEN [vectorstore |-> dp.vectorstore, processed_doc |-> dp.processed_doc,
          result |-> FailedResult]
    ELSE LET chunks == load_documents(f).docs IN
         [vectorstore   |-> add_docs_to_vectorstore(dp.vectorstore, chunks),
          processed_doc |-> [h \in DOMAIN dp.processed_doc \cup {get_file_hash(f)} |->
                               IF h = get_file_hash(f) THEN chunks
                               ELSE dp.processed_doc[h]],
          result |-> [success |-> TRUE, message |-> "document processed successfully",
                      chunks_added |-> Len(chunks), total_chunks |-> Len(chunks)]]

\* process_uploaded_file recording the file's hash before the file is loaded
process_uploaded_file_records_first(dp, f) ==
    IF ~FileExists(f)
    THEN [vectorstore |-> dp.vectorstore, processed_doc |-> dp.processed_doc,
          result |-> FailedResult]
    ELSE IF get_file_hash(f) \in DOMAIN dp.processed_doc
    THEN [vectorstore |-> dp.vectorstore, processed_doc |-> dp.processed_doc,
          result |-> [success |-> TRUE, message |-> "File already processed",
                      chunks_added |-> 0,
                      total_chunks |-> Len(dp.processed_doc[get_file_hash(f)])]]
    ELSE LET chunks == load_documents(f).docs
             seen   == [h \in DOMAIN dp.processed_doc \cup {get_file_hash(f)} |->
                          IF h = get_file_hash(f) THEN chunks ELSE dp.processed_doc[h]]
         IN  IF ~load_documents(f).loaded
             THEN [vectorstore |-> dp.vectorstore, processed_doc |-> seen,
                   result |-> FailedResult]
             ELSE [vectorstore   |-> add_docs_to_vectorstore(dp.vectorstore, chunks),
                   processed_doc |-> seen,
                   result |-> [success |-> TRUE,
                               message |-> "document processed successfully",
                               chunks_added |-> Len(chunks),
                               total_chunks |-> Len(chunks)]]

\* process_uploaded_file on the document processor dp (its vectorstore and
\* processed_doc): the processor afterwards and the dictionary returned
process_uploaded_file(dp, f) ==
    IF ~FileExists(f)
    THEN \* open() raises in get_file_hash; the handler returns the failure
         [vectorstore |-> dp.vectorstore, processed_doc |-> dp.processed_doc,
          result |-> FailedResult]
    ELSE IF get_file_hash(f) \in DOMAIN dp.processed_doc
    THEN [vectorstore |-> dp.vectorstore, processed_doc |-> dp.processed_doc,
          result |-> [success |-> TRUE, message |-> "File already processed",
                      chunks_added |-> 0,
                      total_chunks |-> Len(dp.processed_doc[get_file_hash(f)])]]
    ELSE IF ~load_documents(f).loaded
    THEN \* split_documents(None) raises; the handler returns the failure
         [vectorstore |-> dp.vectorstore, processed_doc |-> dp.processed_doc,
          result |-> FailedResult]
    ELSE LET chunks == load_documents(f).docs IN
         [vectorstore   |-> add_docs_to_vectorstore(dp.vectorstore, chunks),
          processed_doc |-> [h \in DOMAIN dp.processed_doc \cup {get_file_hash(f)} |->
                               IF h = get_file_hash(f) THEN chunks
                               ELSE dp.processed_doc[h]],
          result |-> [success |-> TRUE, message |-> "document processed successfully",
                      chunks_added |-> Len(chunks), total_chunks |-> Len(chunks)]]

\* the methods DocumentProcessor defines
DocumentProcessorMethods ==
    {"get_file_hash", "load_documents", "process_documents",
     "create_vectorstore", "add_docs_to_vectorstore", "process_uploaded_file",
     "search_documents", "get_vectorestore_stats"}

\* LegalRAGSystem.process_documents: the loop over file_paths, from the
\* document processor dp; `seen` collects the files the loop indexed
RECURSIVE process_documents_loop(_, _)
process_documents_loop(dp, paths) ==
    IF paths = << >>
    THEN [vectorstore |-> dp.vectorstore, processed_doc |-> dp.processed_doc,
          results |-> << >>, total_chunks |-> 0, seen |-> {}]
    ELSE LET one  == process_uploaded_file(dp, Head(paths))
             rest == process_documents_loop(
                         [vectorstore |-> one.vectorstore,
                          processed_doc |-> one.processed_doc], Tail(paths))
         IN  [vectorstore   |-> rest.vectorstore,
              processed_doc |-> rest.processed_doc,
              results       |-> << one.result >> \o rest.results,
              total_chunks  |-> (IF one.result.success
                                 THEN one.result.chunks_added ELSE 0)
                                + rest.total_chunks,
              seen          |-> (IF one.result.success /\ one.result.chunks_added > 0
                                 THEN {Head(paths)} ELSE {}) \cup rest.seen]

\* the lists of paths process_documents is called with
RECURSIVE PathLists(_)
PathLists(n) ==
    IF n = 0 THEN {<< >>}
    ELSE LET shorter == PathLists(n - 1)
         IN  shorter \cup {Append(p, f) : p \in shorter, f \in Files}

\* no process_documents call yet
NoBatch == [paths |-> << >>, results |-> << >>, total_chunks_added |-> 0,
            returned |-> FALSE, raised |-> ""]

\* the order similarity_search ranks the indexed chunks in for a question
Reverse(s) == [i \in 1..Len(s) |-> s[Len(s) + 1 - i]]

Questions == {"what is the rent", "who may disclose"}

Ranked(store, question) ==
    IF question = "what is the rent" THEN store.docs ELSE Reverse(store.docs)

\* search_documents: the top k chunks (called only on an existing store)
search_documents(store, question) ==
    LET r == Ranked(store, question)
        k == IF Len(r) < MAX_RETRIEVAL_DOCS THEN Len(r) ELSE MAX_RETRIEVAL_DOCS
    IN  SubSeq(r, 1, k)

(***************************************************************************)
(* rag_system.py: the RAGState and the node functions.                     *)
(***************************************************************************)
\* the empty dictionary
EmptyDict == [k \in {} |-> 0]

\* query: initial_state
initial_state(question) ==
    [ question            |-> question,
      context             |-> << >>,
      answer              |-> "",
      confidence          |-> 0,
      sources             |-> << >>,
      corrections_made    |-> << >>,
      verification_status |-> "",
      iteration_count     |-> 0,
      metadata            |-> EmptyDict ]

\* retrieve_context with the sources deduplicated
retrieve_context_dedup(st, docs) ==
    [st EXCEPT
        !.context  = [i \in DOMAIN docs |-> docs[i].page_content],
        !.sources  = IF Len(docs) > 1 /\ \A i \in DOMAIN docs : docs[i].source = docs[1].source
                     THEN << docs[1].source >>
                     ELSE [i \in DOMAIN docs |-> docs[i].source],
        !.metadata = [ retrieved_docs |-> Len(docs),
                       source_files   |-> {docs[i].source : i \in DOMAIN docs},
                       chunk_sizes    |-> [i \in DOMAIN docs |-> ContentLen(docs[i].page_content)] ]]

\* retrieve_context, given the documents search_documents returned
retrieve_context(st, docs) ==
    [st EXCEPT
        !.context  = [i \in DOMAIN docs |-> docs[i].page_content],
        !.sources  = [i \in DOMAIN docs |-> docs[i].source],
        !.metadata = [ retrieved_docs |-> Len(docs),
                       source_files   |-> {docs[i].source : i \in DOMAIN docs},
                       chunk_sizes    |-> [i \in DOMAIN docs |-> ContentLen(docs[i].page_content)] ]]

\* generate_answer counting the generation twice
generate_answer_double(st, content) ==
    [st EXCEPT !.answer = content,
               !.iteration_count = st.iteration_count + 2]

\* generate_answer, given the text the model answered with
generate_answer(st, content) ==
    [st EXCEPT !.answer = content,
               !.iteration_count = st.iteration_count + 1]

(***************************************************************************)
(* What the language model may answer.                                     *)
(***************************************************************************)
\* texts the Generator and the Corrector may answer with
GeneratorAnswers == {"draft"}
CorrectorAnswers == {"revision", "draft"}

\* The texts the Verifier may answer with, by what json.loads makes of them:
\*   kind "text"   - not JSON at all;
\*   kind "value"  - JSON, but a list, a number or a string, not an object;
\*   kind "object" - a JSON object holding the keys in `keys`.
VerifierText(kind, keys, status, conf, issues, missing, legal) ==
    [ kind |-> kind, keys |-> keys, verification_status |-> status,
      confidence |-> conf, issues |-> issues,
      missing_information |-> missing, legal_concerns |-> legal ]

AllKeys == {"verification_status", "confidence", "issues",
            "missing_information", "legal_concerns"}

\* status strings a verdict may carry: the two the prompt asks for and one
\* it does not
VerdictStatuses == {"VERIFIED", "NEEDS_CORRECTION", "PARTIALLY_VERIFIED"}

\* confidences a verdict may carry, in tenths; the prompt asks for 0.0-1.0
\* and nothing holds the model to it
VerdictConfidences == {-1, 3, 7, 10}

\* the issue lists a verdict may carry: the three keys left out, and all
\* three present and filled
VerdictIssues ==
    { [keys |-> {"verification_status", "confidence"},
       issues |-> << >>, missing |-> << >>, legal |-> << >>],
      [keys |-> AllKeys, issues |-> << "unsupported claim" >>,
       missing |-> << "notice period" >>, legal |-> << "wrong term" >>] }

WellFormedVerdicts ==
    { VerifierText("object", i.keys, s, c, i.issues, i.missing, i.legal) :
        s \in VerdictStatuses, c \in VerdictConfidences, i \in VerdictIssues }

MalformedVerdicts ==
    { VerifierText("text", {}, "", 0, << >>, << >>, << >>),
      VerifierText("value", {}, "", 0, << >>, << >>, << >>),
      VerifierText("object", AllKeys \ {"verification_status"}, "", 9,
                   << >>, << >>, << >>),
      VerifierText("object", AllKeys \ {"confidence"}, "VERIFIED", 0,
                   << >>, << >>, << >>) }

VerifierOutputs == WellFormedVerdicts \cup MalformedVerdicts

\* the verifier output before any verify ran
NoVerdict == VerifierText("none", {}, "", 0, << >>, << >>, << >>)

(***************************************************************************)
(* verify_answer.                                                          *)
(***************************************************************************)
\* json.loads(verification_response.content) raises JSONDecodeError
JSONDecodeError(out) == out.kind = "text"

\* verification_data.get(key, [])
GetList(out, key, value) == IF key \in out.keys THEN value ELSE << >>

\* all_issues: issues, missing_information and legal_concerns, extended in
\* that order
all_issues(out) ==
    GetList(out, "issues", out.issues)
        \o GetList(out, "missing_information", out.missing_information)
        \o GetList(out, "legal_concerns", out.legal_concerns)

\* the inner try block raises something other than JSONDecodeError, which
\* the outer handler logs and raises again: .get on a value that is no
\* dictionary (AttributeError), or a subscript with an absent key (KeyError)
verify_raises(out) ==
    /\ ~JSONDecodeError(out)
    /\ \/ out.kind # "object"
       \/ "verification_status" \notin out.keys
       \/ "confidence" \notin out.keys

\* verify_answer, given the text the model answered with, when it returns
verify_answer(st, out) ==
    IF JSONDecodeError(out)
    THEN [st EXCEPT !.verification_status = "NEEDS_CORRECTION",
                    !.confidence = 5,
                    !.corrections_made = st.corrections_made \o << "Verification parsing error" >>]
    ELSE [st EXCEPT !.verification_status = out.verification_status,
                    !.confidence = out.confidence,
                    !.corrections_made = st.corrections_made \o all_issues(out)]

\* correct_answer starting the log over instead of extending it
correct_answer_overwrites(st, content) ==
    [st EXCEPT !.answer = content,
               !.corrections_made = << "Answer corrected based on verification" >>]

\* correct_answer putting the verdict back to its initial value
correct_answer_resets(st, content) ==
    [st EXCEPT !.answer = content,
               !.confidence = 0,
               !.verification_status = "",
               !.corrections_made = st.corrections_made \o << "Answer corrected based on verification" >>]

\* correct_answer, given the text the model answered with
correct_answer(st, content) ==
    [st EXCEPT !.answer = content,
               !.corrections_made = st.corrections_made \o << "Answer corrected based on verification" >>]

\* dict.update: the entries of `new` over those of `old`
DictUpdate(old, new) ==
    [k \in DOMAIN old \cup DOMAIN new |-> IF k \in DOMAIN new THEN new[k] ELSE old[k]]

\* finalize_response starting metadata over instead of updating it
finalize_response_replaces(st) ==
    [st EXCEPT !.metadata =
        [ final_iteration_count |-> st.iteration_count,
          total_corrections     |-> Len(st.corrections_made) ]]

\* finalize_response
finalize_response(st) ==
    [st EXCEPT !.metadata =
        DictUpdate(st.metadata,
                   [ final_iteration_count |-> st.iteration_count,
                     total_corrections     |-> Len(st.corrections_made) ])]

\* should_correct with the threshold itself counted as too low
should_correct_le(st, maxIter, minConf) ==
    IF st.iteration_count >= maxIter THEN "finalize"
    ELSE IF st.verification_status = "NEEDS_CORRECTION" \/ st.confidence <= minConf
         THEN "correct"
         ELSE "finalize"

\* should_correct with the two routes of the confidence test swapped
should_correct_swapped(st, maxIter, minConf) ==
    IF st.iteration_count >= maxIter THEN "finalize"
    ELSE IF st.verification_status = "NEEDS_CORRECTION" \/ st.confidence < minConf
         THEN "finalize"
         ELSE "correct"

\* should_correct: the node the graph runs after verify
should_correct(st, maxIter, minConf) ==
    IF st.iteration_count >= maxIter THEN "finalize"
    ELSE IF st.verification_status = "NEEDS_CORRECTION" \/ st.confidence < minConf
         THEN "correct"
         ELSE "finalize"

\* the graph with the edge out of correct going to finalize
EdgeFrom_skip_verify(node) ==
    CASE node = "retrieve" -> "generate"
      [] node = "generate" -> "verify"
      [] node = "correct"  -> "finalize"
      [] node = "finalize" -> "END"

\* create_correction_graph: the unconditional edges
EdgeFrom(node) ==
    CASE node = "retrieve" -> "generate"
      [] node = "generate" -> "verify"
      [] node = "correct"  -> "verify"
      [] node = "finalize" -> "END"

\* query: the RAGResponse built from the final state
RAGResponse(final_state) ==
    [ answer              |-> final_state.answer,
      confidence          |-> final_state.confidence,
      sources             |-> final_state.sources,
      corrections_made    |-> final_state.corrections_made,
      verification_status |-> final_state.verification_status,
      metadata            |-> final_state.metadata ]

NoResponse == [ answer |-> "", confidence |-> 0, sources |-> << >>,
                corrections_made |-> << >>, verification_status |-> "none",
                metadata |-> EmptyDict ]

(***************************************************************************)
(* query() calls side by side, and the checkpoints the compiled graph      *)
(* keeps in self.memory under thread_id = session_id.                      *)
(***************************************************************************)
\* the query() calls made side by side, by caller, and what each asks
Queries == {"q1", "q2"}

Asked == [q \in Queries |-> IF q = "q1" THEN "what is the rent" ELSE "who may disclose"]

\* the session_id values handed to query: the default and another one
SessionKeys == {"default", "other"}

\* every session under one thread
thread_id_shared(session_id) == "default"

\* config = {"configurable": {"thread_id": session_id}}
thread_id(session_id) == session_id

\* no checkpoint saved for a thread
NoCheckpoint == [present |-> FALSE, values |-> initial_state(""), next |-> ""]

\* the checkpointer saving the values of a thread and the node to run next
put(mem, session_id, values, next) ==
    [mem EXCEPT ![thread_id(session_id)] =
        [present |-> TRUE, values |-> values, next |-> next]]

\* the graph taking its input over the thread's checkpoint with the log and
\* the counter of the checkpoint kept
graph_input_keeps(mem, session_id, input) ==
    [DictUpdate(mem[thread_id(session_id)].values, input) EXCEPT
        !.corrections_made = mem[thread_id(session_id)].values.corrections_made,
        !.iteration_count = mem[thread_id(session_id)].values.iteration_count]

\* the graph taking its input over the thread's checkpoint: every key the
\* input holds replaces the saved one
graph_input(mem, session_id, input) ==
    DictUpdate(mem[thread_id(session_id)].values, input)

\* the texts the Verifier answers with while queries run side by side: a
\* verdict that passes, one that does not, and a text that is no JSON
ConcurrentVerdicts ==
    { out \in VerifierOutputs :
        \/ out.kind = "text"
        \/ /\ out.kind = "object" /\ out.keys = AllKeys
           /\ << out.verification_status, out.confidence >>
                  \in { << "VERIFIED", 10 >>, << "NEEDS_CORRECTION", 3 >> } }

\* no handler of the app has returned yet
NoReply == [handler |-> "", kind |-> ""]

\* a caller with no query() call made yet
IdleRun ==
    [ pc |-> "idle", session_id |-> "default", state |-> initial_state(""),
      steps |-> 0, failure |-> "", response |-> NoResponse,
      answers |-> << >>, verdicts |-> << >>,
      detached |-> FALSE, held |-> NoStore,
      checked |-> FALSE, verified |-> initial_state("") ]

(***************************************************************************)
(* The state machine.                                                      *)
(***************************************************************************)
Nodes == {"retrieve", "generate", "verify", "correct", "finalize"}

\* a verdict that is VERIFIED with a confidence at or above the threshold
GoodVerdict(out) ==
    /\ ~JSONDecodeError(out) /\ ~verify_raises(out)
    /\ out.verification_status = "VERIFIED"
    /\ out.confidence >= min_confidence_threshold

\* a verdict that is NEEDS_CORRECTION or below the threshold
BadVerdict(out) ==
    /\ ~JSONDecodeError(out) /\ ~verify_raises(out)
    /\ \/ out.verification_status = "NEEDS_CORRECTION"
       \/ out.confidence < min_confidence_threshold

NoResult == [success |-> FALSE, message |-> "", chunks_added |-> 0, total_chunks |-> 0]

\* a LegalRAGSystem just built, nothing uploaded, nothing asked
InitState ==
    /\ vectorstore = NoStore
    /\ processed_doc = EmptyDict
    /\ pc = "idle"
    /\ state = initial_state("")
    /\ steps = 0
    /\ response = NoResponse
    /\ failure = ""
    /\ last_result = NoResult
    /\ ingested = {}
    /\ batch = NoBatch
    /\ run = [q \in Queries |-> IdleRun]
    /\ memory = [t \in SessionKeys |-> NoCheckpoint]
    /\ genCalls = 0
    /\ verCalls = 0
    /\ corCalls = 0
    /\ lastNode = ""
    /\ prevNode = ""
    /\ lastVerdict = NoVerdict
    /\ examined = ""
    /\ firstGood = 0
    /\ allBad = TRUE
    /\ uploaded_files = << >>
    /\ reply = NoReply
    /\ cleared = FALSE
    /\ ingested_before = {}

\* the application built under a configuration that is in range
Init ==
    /\ min_confidence_threshold \in Thresholds
    /\ max_correction_iterations \in 1..MaxIterations
    /\ api_key = TRUE
    /\ app = "running"
    /\ InitState

application == << app, api_key, uploaded_files, reply, cleared, ingested_before >>
config == << min_confidence_threshold, max_correction_iterations >>
sessions == << run, memory >>
index == << vectorstore, processed_doc, last_result, ingested, batch >>
history == << genCalls, verCalls, corCalls, lastNode, prevNode, lastVerdict,
              examined, firstGood, allBad >>

\* process_uploaded_file(f)
ProcessUploadedFile(f) ==
    LET out == process_uploaded_file(
                   [vectorstore |-> vectorstore, processed_doc |-> processed_doc], f)
    IN  /\ vectorstore' = out.vectorstore
        /\ processed_doc' = out.processed_doc
        /\ last_result' = out.result
        /\ ingested' = IF out.result.success /\ out.result.chunks_added > 0
                       THEN ingested \cup {f} ELSE ingested
        /\ UNCHANGED << application, sessions, config, pc, state, steps, response, failure, batch, history >>

\* LegalRAGSystem.process_documents(paths): the loop runs to its end, and
\* the dictionary is returned unless building it raises, which it does when
\* the document processor has no get_vectorstore_stats method
ProcessDocuments(paths) ==
    LET out == process_documents_loop(
                   [vectorstore |-> vectorstore, processed_doc |-> processed_doc], paths)
        ok  == "get_vectorstore_stats" \in DocumentProcessorMethods
    IN  /\ vectorstore' = out.vectorstore
        /\ processed_doc' = out.processed_doc
        /\ ingested' = ingested \cup out.seen
        /\ batch' = [paths |-> paths, results |-> out.results,
                     total_chunks_added |-> out.total_chunks,
                     returned |-> ok,
                     raised |-> IF ok THEN "" ELSE "AttributeError"]
        /\ UNCHANGED << application, sessions, config, pc, state, steps, response, failure, last_result,
                        history >>

\* query(question): the initial state is handed to the graph
QueryStart(question) ==
    /\ pc \in {"idle", "done", "failed"}
    /\ pc' = "retrieve"
    /\ state' = initial_state(question)
    /\ steps' = 0
    /\ response' = NoResponse
    /\ failure' = ""
    /\ genCalls' = 0 /\ verCalls' = 0 /\ corCalls' = 0
    /\ lastNode' = "" /\ prevNode' = "" /\ lastVerdict' = NoVerdict /\ examined' = ""
    /\ firstGood' = 0 /\ allBad' = TRUE
    /\ UNCHANGED << application, sessions, config, index >>

\* a failure answered with a response built from the state reached so far
Raise_partial(what) ==
    /\ pc' = "done"
    /\ failure' = what
    /\ response' = RAGResponse(state)
    /\ UNCHANGED << application, sessions, config, index, state, steps, history >>

\* a node raises: the exception leaves the graph and query raises it again
Raise(what) ==
    /\ pc' = "failed"
    /\ failure' = what
    /\ UNCHANGED << application, sessions, config, index, state, steps, response, history >>

\* the retrieve node
Retrieve ==
    /\ pc = "retrieve" /\ steps < RecursionLimit
    /\ \/ /\ ~vectorstore.exists          \* search_documents raises ValueError
          /\ Raise("retrieve")
       \/ /\ vectorstore.exists            \* similarity_search raises
          /\ Raise("retrieve")
       \/ /\ vectorstore.exists
          /\ state' = retrieve_context(state, search_documents(vectorstore, state.question))
          /\ pc' = EdgeFrom("retrieve")
          /\ steps' = steps + 1
          /\ lastNode' = "retrieve" /\ prevNode' = lastNode
          /\ UNCHANGED << application, sessions, config, index, response, failure, genCalls, verCalls,
                          corCalls, lastVerdict, examined, firstGood, allBad >>

\* the generate node
Generate ==
    /\ pc = "generate" /\ steps < RecursionLimit
    /\ \/ Raise("generate")                \* llm.invoke raises
       \/ \E content \in GeneratorAnswers :
            /\ state' = generate_answer(state, content)
            /\ pc' = EdgeFrom("generate")
            /\ steps' = steps + 1
            /\ lastNode' = "generate" /\ prevNode' = lastNode
            /\ genCalls' = genCalls + 1
            /\ UNCHANGED << application, sessions, config, index, response, failure, verCalls, corCalls,
                            lastVerdict, examined, firstGood, allBad >>

\* the verify node and the conditional edge after it
Verify ==
    /\ pc = "verify" /\ steps < RecursionLimit
    /\ \/ Raise("verify_call")             \* llm.invoke raises
       \/ \E out \in VerifierOutputs :
            IF verify_raises(out)
            THEN /\ pc' = "failed"
                 /\ failure' = "verify_decode"
                 /\ verCalls' = verCalls + 1
                 /\ lastVerdict' = out
                 /\ examined' = state.answer
                 /\ allBad' = FALSE
                 /\ UNCHANGED << application, sessions, config, index, state, steps, response, genCalls,
                                 corCalls, lastNode, prevNode, firstGood >>
            ELSE /\ state' = verify_answer(state, out)
                 /\ pc' = should_correct(state', max_correction_iterations,
                                         min_confidence_threshold)
                 /\ steps' = steps + 1
                 /\ lastNode' = "verify" /\ prevNode' = lastNode
                 /\ verCalls' = verCalls + 1
                 /\ lastVerdict' = out
                 /\ examined' = state.answer
                 /\ firstGood' = IF firstGood = 0 /\ GoodVerdict(out)
                                 THEN verCalls + 1 ELSE firstGood
                 /\ allBad' = (allBad /\ BadVerdict(out))
                 /\ UNCHANGED << application, sessions, config, index, response, failure, genCalls, corCalls >>

\* the correct node
Correct ==
    /\ pc = "correct" /\ steps < RecursionLimit
    /\ \/ Raise("correct")                 \* llm.invoke raises
       \/ \E content \in CorrectorAnswers :
            /\ state' = correct_answer(state, content)
            /\ pc' = EdgeFrom("correct")
            /\ steps' = steps + 1
            /\ lastNode' = "correct" /\ prevNode' = lastNode
            /\ corCalls' = corCalls + 1
            /\ UNCHANGED << application, sessions, config, index, response, failure, genCalls, verCalls,
                            lastVerdict, examined, firstGood, allBad >>

\* the finalize node; the graph ends and query returns the RAGResponse
Finalize ==
    /\ pc = "finalize" /\ steps < RecursionLimit
    /\ state' = finalize_response(state)
    /\ response' = RAGResponse(state')
    /\ pc' = IF EdgeFrom("finalize") = "END" THEN "done" ELSE EdgeFrom("finalize")
    /\ steps' = steps + 1
    /\ lastNode' = "finalize" /\ prevNode' = lastNode
    /\ UNCHANGED << application, sessions, config, index, failure, genCalls, verCalls, corCalls,
                    lastVerdict, examined, firstGood, allBad >>

\* the graph has a node left to run and no superstep left to run it in:
\* ainvoke raises the runtime's recursion error, which query raises again
RecursionAbort ==
    /\ pc \in Nodes /\ steps >= RecursionLimit
    /\ Raise("recursion")

Next ==
    \/ \E f \in Files : ProcessUploadedFile(f)
    \/ \E q \in Questions : QueryStart(q)
    \/ Retrieve
    \/ Generate
    \/ Verify
    \/ Correct
    \/ Finalize
    \/ RecursionAbort

Spec == Init /\ [][Next]_vars

\* ingestion alone: single files and batches
IngestNext ==
    \/ \E f \in Files : ProcessUploadedFile(f)
    \/ \E paths \in PathLists(MaxBatch) \ {<< >>} : ProcessDocuments(paths)

IngestSpec == Init /\ [][IngestNext]_vars

(***************************************************************************)
(* Properties.                                                             *)
(***************************************************************************)
\* the failures of a collaborator: the index search or a model call raised
CollaboratorFailures == {"retrieve", "generate", "verify_call", "correct"}

\* the query has ended, and no collaborator failed
EndedWithoutFailure ==
    pc \in {"done", "failed"} /\ failure \notin CollaboratorFailures

\* C1: a query that suffers no collaborator failure ends in FINALIZE, whatever
\* the verifier answers, and has invoked the Generator at most
\* max_correction_iterations times: it never ends because the graph ran out
\* of supersteps while the verifier kept asking for corrections.
C1_ReachesFinalizeWithinBudget ==
    /\ genCalls <= max_correction_iterations
    /\ (EndedWithoutFailure /\ lastVerdict \in WellFormedVerdicts) => pc = "done"

\* C2: when every verdict was NEEDS_CORRECTION or below the threshold, the
\* query ends in FINALIZE with final_iteration_count equal to
\* max_correction_iterations, and the response carries the last verdict's
\* confidence and its NEEDS_CORRECTION status.
C2_AlwaysNeedsCorrectionStopsAtMax ==
    (EndedWithoutFailure /\ verCalls >= 1 /\ allBad) =>
        /\ pc = "done"
        /\ response.metadata.final_iteration_count = max_correction_iterations
        /\ response.confidence = lastVerdict.confidence
        /\ lastVerdict.verification_status = "NEEDS_CORRECTION"
              => response.verification_status = "NEEDS_CORRECTION"

\* C3: when the n-th verdict (n <= max_correction_iterations) is the first
\* VERIFIED one at or above the threshold, no further verification runs, and
\* the query finalizes after n verifications and n-1 corrections with status
\* VERIFIED and final_iteration_count = n.
C3_FirstVerifiedAtN ==
    (firstGood >= 1 /\ firstGood <= max_correction_iterations) =>
        /\ verCalls = firstGood
        /\ corCalls = firstGood - 1
        /\ pc = "done" =>
              /\ response.verification_status = "VERIFIED"
              /\ response.metadata.final_iteration_count = firstGood

\* C4: a verifier output that cannot be decoded into the structured verdict
\* never makes VERIFY raise: the verify step completes with confidence 0.5,
\* status NEEDS_CORRECTION and exactly one sentinel issue appended.
C4_MalformedVerdictDegrades ==
    lastVerdict \in MalformedVerdicts =>
        /\ failure # "verify_decode"
        /\ lastNode = "verify" =>
              /\ state.confidence = 5
              /\ state.verification_status = "NEEDS_CORRECTION"
              /\ Len(state.corrections_made) >= 1
              /\ state.corrections_made[Len(state.corrections_made)]
                    = "Verification parsing error"

\* a is a prefix of b
IsPrefix(a, b) == Len(a) <= Len(b) /\ SubSeq(b, 1, Len(a)) = a

\* the verdict a verifier output stands for: its own status and confidence,
\* or the degraded verdict when it is not JSON
ProducedStatus(out) ==
    IF out.kind = "text" THEN "NEEDS_CORRECTION" ELSE out.verification_status
ProducedConfidence(out) ==
    IF out.kind = "text" THEN 5 ELSE out.confidence

\* C5: whenever query has returned a RAGResponse, a VERIFY step has run,
\* FINALIZE came directly after a VERIFY (no GENERATE or CORRECT in between),
\* and the response carries the answer that VERIFY examined with the verdict
\* it produced; the step after every CORRECT is a VERIFY.
C5_ResponseFollowsVerify ==
    /\ pc = "done" =>
          /\ verCalls >= 1
          /\ lastNode = "finalize" /\ prevNode = "verify"
          /\ response.answer = examined
          /\ response.confidence = ProducedConfidence(lastVerdict)
          /\ response.verification_status = ProducedStatus(lastVerdict)
    /\ lastNode = "correct" => pc \in {"verify", "failed"}
    /\ prevNode = "correct" => lastNode = "verify"

\* C5 witness: a response returned after a correction round
C5_Witness ==
    pc = "done" /\ corCalls >= 1 /\ response.answer = "revision"

\* C6: after every VERIFY the next node is FINALIZE when iteration_count has
\* reached MAX_CORRECTION_ITERATIONS; otherwise CORRECT when the status is
\* NEEDS_CORRECTION or the confidence is strictly below the threshold;
\* otherwise FINALIZE.
C6_DecisionRule ==
    (lastNode = "verify" /\ pc # "failed") =>
        pc = IF state.iteration_count >= max_correction_iterations
             THEN "finalize"
             ELSE IF \/ state.verification_status = "NEEDS_CORRECTION"
                     \/ state.confidence < min_confidence_threshold
                  THEN "correct"
                  ELSE "finalize"

\* C6 witness: a VERIFIED verdict exactly at the threshold, below the
\* iteration ceiling, finalizes
C6_Witness ==
    /\ lastNode = "verify" /\ pc = "finalize"
    /\ state.iteration_count < max_correction_iterations
    /\ state.verification_status = "VERIFIED"
    /\ state.confidence = min_confidence_threshold

\* C7: when the first verdict is VERIFIED at or above the threshold, the
\* query goes to FINALIZE after one Generator call, one Verifier call and no
\* Corrector call, and corrections_made holds exactly that verdict's issues.
C7_VerifiedAtOnce ==
    firstGood = 1 =>
        /\ genCalls = 1 /\ verCalls = 1 /\ corCalls = 0
        /\ pc \in {"finalize", "done"}
        /\ state.corrections_made =
              lastVerdict.issues \o lastVerdict.missing_information
                                \o lastVerdict.legal_concerns
        /\ pc = "done" => response.corrections_made = state.corrections_made

\* C7 witness: a query finalized on its first verdict, which listed issues
C7_Witness ==
    firstGood = 1 /\ pc = "done" /\ Len(response.corrections_made) = 3

\* a step of the graph does not decrease iteration_count
IterationCountKept ==
    pc \in Nodes => state'.iteration_count >= state.iteration_count

\* C8: in every state of a query iteration_count is at most
\* max_correction_iterations, and no step of the graph decreases it.
C8_IterationCountBounded ==
    /\ [](pc # "idle" => state.iteration_count <= max_correction_iterations)
    /\ [][IterationCountKept]_vars

\* C8 witness: a finalized query whose iteration_count equals the maximum
C8_Witness ==
    pc = "done" /\ state.iteration_count = max_correction_iterations

\* what a step of the graph does to corrections_made
CorrectionsExtended ==
    pc \in Nodes =>
        /\ IsPrefix(state.corrections_made, state'.corrections_made)
        /\ (pc = "verify" /\ steps' = steps + 1
                /\ lastVerdict' \in WellFormedVerdicts) =>
              state'.corrections_made =
                  state.corrections_made \o lastVerdict'.issues
                      \o lastVerdict'.missing_information
                      \o lastVerdict'.legal_concerns
        /\ (pc = "correct" /\ steps' = steps + 1) =>
              state'.corrections_made =
                  state.corrections_made
                      \o << "Answer corrected based on verification" >>

\* C9: every step of a query leaves the old corrections_made a prefix of the
\* new one; a VERIFY that decodes a verdict appends its issues, its
\* missing_information and its legal_concerns, in that order; a CORRECT
\* appends the correction marker.
C9_CorrectionsAppendOnly == [][CorrectionsExtended]_vars

\* C9 witness: a log holding a verdict's three lists and a correction marker
C9_Witness ==
    /\ Len(state.corrections_made) >= 4
    /\ SubSeq(state.corrections_made, 1, 4) =
          << "unsupported claim", "notice period", "wrong term",
             "Answer corrected based on verification" >>

\* what a step of the graph does to context and sources
ContextKept ==
    /\ pc \in {"generate", "verify", "correct", "finalize"} =>
          /\ state'.context = state.context
          /\ state'.sources = state.sources
    /\ (pc = "retrieve" /\ steps' = steps + 1) =>
          /\ lastNode = "" /\ genCalls = 0
          /\ Len(state'.context) = state'.metadata.retrieved_docs

\* C10: context and sources always have the same length; RETRIEVE, the first
\* step of a query, assigns them before any GENERATE, and GENERATE, VERIFY,
\* CORRECT and FINALIZE leave them unchanged.
C10_ContextSetOnce ==
    /\ [](Len(state.context) = Len(state.sources))
    /\ [][ContextKept]_vars

\* C10 witness: two retrieved chunks still in place after a correction round
C10_Witness ==
    pc = "done" /\ corCalls >= 1 /\ Len(state.context) = 2
        /\ Len(state.sources) = 2

\* a step of the graph other than verify leaves the verdict alone
VerdictKept ==
    (pc \in Nodes /\ pc # "verify") =>
        /\ state'.confidence = state.confidence
        /\ state'.verification_status = state.verification_status

\* C11: RETRIEVE, GENERATE, CORRECT and FINALIZE leave confidence and
\* verification_status unchanged, so once a VERIFY has produced a verdict the
\* two fields are those of the most recent verdict.
C11_VerdictSetByVerifyOnly ==
    /\ []((verCalls >= 1 /\ failure # "verify_decode") =>
            /\ state.confidence = ProducedConfidence(lastVerdict)
            /\ state.verification_status = ProducedStatus(lastVerdict))
    /\ [][VerdictKept]_vars

\* C11 witness: a correction has run and the verdict before it is still there
C11_Witness ==
    /\ lastNode = "correct" /\ corCalls >= 1
    /\ state.verification_status = "NEEDS_CORRECTION"
    /\ state.confidence = 3

\* the fields of the RAGState other than metadata
StateFieldsButMetadata(st) ==
    << st.question, st.context, st.answer, st.confidence, st.sources,
       st.corrections_made, st.verification_status, st.iteration_count >>

\* the finalize step changes metadata alone, and only by adding to it
FinalizeTouchesMetadataOnly ==
    (pc = "finalize" /\ pc' = "done") =>
        /\ StateFieldsButMetadata(state') = StateFieldsButMetadata(state)
        /\ \A k \in DOMAIN state.metadata :
              k \in DOMAIN state'.metadata
                  /\ state'.metadata[k] = state.metadata[k]

\* C12: at FINALIZE final_iteration_count is iteration_count and
\* total_corrections is the length of corrections_made, the retrieval
\* metadata is still there, and FINALIZE changes no field but metadata.
C12_FinalMetadata ==
    /\ [](pc = "done" =>
            /\ DOMAIN state.metadata =
                  {"retrieved_docs", "source_files", "chunk_sizes",
                   "final_iteration_count", "total_corrections"}
            /\ state.metadata.final_iteration_count = state.iteration_count
            /\ state.metadata.total_corrections = Len(state.corrections_made)
            /\ state.metadata.retrieved_docs = Len(state.context)
            /\ state.metadata.source_files
                  = {state.sources[i] : i \in DOMAIN state.sources}
            /\ Len(state.metadata.chunk_sizes) = Len(state.context)
            /\ response.metadata = state.metadata)
    /\ [][FinalizeTouchesMetadataOnly]_vars

\* C12 witness: a finalized query that logged verifier issues and a marker
C12_Witness ==
    /\ pc = "done"
    /\ state.metadata.total_corrections = 4
    /\ state.metadata.retrieved_docs = 2

\* a failed query runs no further node; a search on an empty index fails
FailureIsFinal ==
    /\ pc = "failed" =>
          \/ pc' = "retrieve" /\ steps' = 0
          \/ /\ pc' = "failed" /\ state' = state /\ response' = response
             /\ << genCalls', verCalls', corCalls' >>
                  = << genCalls, verCalls, corCalls >>
    /\ (pc = "retrieve" /\ ~vectorstore.exists /\ pc' # pc) => pc' = "failed"

\* C13: a query whose index is empty, or whose retrieve, generate or correct
\* call fails, is aborted: it is failed, no node runs after the failure and
\* no RAGResponse is returned for it.
C13_FailureAborts ==
    /\ [](failure # "" => pc = "failed" /\ response = NoResponse)
    /\ [][FailureIsFinal]_vars

\* C13 witness: the Corrector failed after a verification
C13_Witness ==
    pc = "failed" /\ failure = "correct" /\ verCalls >= 1

\* C19: in every state of a query confidence is a number in [0, 1] (0 to 10
\* tenths): 0.0 at the start, and still in range after each VERIFY whatever
\* verdict the Verifier emits.
C19_ConfidenceInUnitInterval ==
    /\ pc # "idle" => state.confidence \in 0..10
    /\ (pc # "idle" /\ verCalls = 0) => state.confidence = 0

\* the value query gives verification_status before any verification; the
\* code writes the empty string where the data model says UNVERIFIED
UNVERIFIED == ""

\* C20: in every state of a query verification_status is UNVERIFIED,
\* VERIFIED or NEEDS_CORRECTION: UNVERIFIED until the first VERIFY, and
\* VERIFIED or NEEDS_CORRECTION after any VERIFY, whatever status string the
\* verdict carries.
C20_StatusInEnum ==
    pc # "idle" =>
        /\ state.verification_status
              \in {UNVERIFIED, "VERIFIED", "NEEDS_CORRECTION"}
        /\ lastNode \in {"", "retrieve", "generate"}
              => state.verification_status = UNVERIFIED
        /\ lastNode \in {"verify", "correct", "finalize"}
              => state.verification_status \in {"VERIFIED", "NEEDS_CORRECTION"}


(***************************************************************************)
(* Queries side by side.  Each call runs the graph on values of its own;   *)
(* after the input and after every node that returned, the values and the  *)
(* node to run next are saved under the call's thread_id.                  *)
(***************************************************************************)
alone == << pc, state, steps, response, failure, history >>

\* query(Asked[q], session_id) by caller q: nothing holds the call back
\* while another call, of this session or another, is in flight
Query(q, session_id) ==
    /\ run[q].pc = "idle"
    /\ LET st == graph_input(memory, session_id, initial_state(Asked[q]))
       IN  /\ run' = [run EXCEPT ![q] =
                        [IdleRun EXCEPT !.pc = "retrieve",
                                        !.session_id = session_id,
                                        !.state = st]]
           /\ memory' = put(memory, session_id, st, "retrieve")
    /\ UNCHANGED << application, config, index, alone >>

\* the index of the LegalRAGSystem q's call runs on: the one the
\* application holds, or the one it held until clear_documents replaced it
self_vectorstore(q) == IF run[q].detached THEN run[q].held ELSE vectorstore

\* a node of q's call returned st: the call moves on and is checkpointed in
\* the memory of the LegalRAGSystem it runs on
Returned(q, st, next, after) ==
    /\ run' = [run EXCEPT ![q] = [after EXCEPT !.state = st,
                                               !.pc = next,
                                               !.steps = run[q].steps + 1]]
    /\ memory' = IF run[q].detached THEN memory
                 ELSE put(memory, run[q].session_id, st, next)
    /\ UNCHANGED << application, config, index, alone >>

RunRetrieve(q) ==
    /\ run[q].pc = "retrieve" /\ run[q].steps < RecursionLimit
    /\ self_vectorstore(q).exists
    /\ LET docs == search_documents(self_vectorstore(q), run[q].state.question)
       IN  Returned(q, retrieve_context(run[q].state, docs), EdgeFrom("retrieve"),
                    run[q])

RunGenerate(q) ==
    /\ run[q].pc = "generate" /\ run[q].steps < RecursionLimit
    /\ \E content \in GeneratorAnswers :
         Returned(q, generate_answer(run[q].state, content), EdgeFrom("generate"),
                  [run[q] EXCEPT !.answers = Append(@, content)])

RunVerify(q) ==
    /\ run[q].pc = "verify" /\ run[q].steps < RecursionLimit
    /\ \E out \in ConcurrentVerdicts :
         LET st == verify_answer(run[q].state, out)
         IN  Returned(q, st,
                      should_correct(st, max_correction_iterations,
                                     min_confidence_threshold),
                      [run[q] EXCEPT !.verdicts = Append(@, out),
                                     !.checked = TRUE,
                                     !.verified = st])

RunCorrect(q) ==
    /\ run[q].pc = "correct" /\ run[q].steps < RecursionLimit
    /\ \E content \in CorrectorAnswers \ GeneratorAnswers :
         Returned(q, correct_answer(run[q].state, content), EdgeFrom("correct"),
                  [run[q] EXCEPT !.answers = Append(@, content)])

\* the finalize node; the graph ends and query returns the RAGResponse
RunFinalize(q) ==
    /\ run[q].pc = "finalize" /\ run[q].steps < RecursionLimit
    /\ LET st == finalize_response(run[q].state)
       IN  Returned(q, st, "done", [run[q] EXCEPT !.response = RAGResponse(st)])

\* the node q's call is at raises (no vectorstore, a failing model call, a
\* verdict verify_answer cannot read) or the call is cancelled while
\* awaiting the graph: query raises, and nothing is saved or removed on the
\* way out
RunRaise(q) ==
    /\ run[q].pc \in Nodes \ {"finalize"} /\ run[q].steps < RecursionLimit
    /\ run' = [run EXCEPT ![q].pc = "failed", ![q].failure = run[q].pc]
    /\ UNCHANGED << application, memory, config, index, alone >>

\* the graph has a node left to run and no superstep left to run it in
RunRecursion(q) ==
    /\ run[q].pc \in Nodes /\ run[q].steps >= RecursionLimit
    /\ run' = [run EXCEPT ![q].pc = "failed", ![q].failure = "recursion"]
    /\ UNCHANGED << application, memory, config, index, alone >>

\* the index and the configuration the queries run against
ConcInit ==
    /\ Init
    /\ min_confidence_threshold = 7

ConcNext ==
    \/ \E f \in Files : /\ run = [q \in Queries |-> IdleRun]
                         /\ last_result = NoResult
                         /\ ProcessUploadedFile(f)
    \/ \E q \in Queries, s \in SessionKeys : Query(q, s)
    \/ \E q \in Queries : RunRetrieve(q)
    \/ \E q \in Queries : RunGenerate(q)
    \/ \E q \in Queries : RunVerify(q)
    \/ \E q \in Queries : RunCorrect(q)
    \/ \E q \in Queries : RunFinalize(q)
    \/ \E q \in Queries : RunRaise(q)
    \/ \E q \in Queries : RunRecursion(q)

ConcSpec == ConcInit /\ [][ConcNext]_vars

(***************************************************************************)
(* Ingestion                                                               *)
(***************************************************************************)

\* the document processor as it stands
Processor == [vectorstore |-> vectorstore, processed_doc |-> processed_doc]

\* C17: in every state ingestion reaches, ingesting once more a file that
\* was already ingested successfully returns success = true and
\* chunks_added = 0 and leaves the vector index and the processed-file
\* record as they are.
C17_ReingestIsNoOp ==
    \A f \in ingested :
        LET again == process_uploaded_file(Processor, f)
        IN  /\ again.result.success
            /\ again.result.chunks_added = 0
            /\ again.vectorstore = vectorstore
            /\ again.processed_doc = processed_doc

\* a batch that named one file twice: indexed the first time, skipped the second
C17_Witness ==
    /\ Len(batch.paths) = 2
    /\ batch.paths[1] = batch.paths[2]
    /\ batch.results[1].success /\ batch.results[1].chunks_added > 0
    /\ batch.results[2].message = "File already processed"
    /\ batch.paths[1] \in ingested

\* the sum of chunks_added over the successful results
RECURSIVE SumAdded(_)
SumAdded(results) ==
    IF results = << >> THEN 0
    ELSE (IF Head(results).success THEN Head(results).chunks_added ELSE 0)
         + SumAdded(Tail(results))

\* C18: every process_documents call returns normally, with one result per
\* path in order, success = false and chunks_added = 0 for a file that cannot
\* be processed, and total_chunks_added the sum over the successful results.
C18_BatchReturnsPerFileResults ==
    batch.paths # << >> =>
        /\ batch.returned
        /\ Len(batch.results) = Len(batch.paths)
        /\ \A i \in 1..Len(batch.paths) :
              (~FileExists(batch.paths[i]) \/ ~load_documents(batch.paths[i]).loaded)
                  => /\ ~batch.results[i].success
                     /\ batch.results[i].chunks_added = 0
        /\ batch.total_chunks_added = SumAdded(batch.results)


(***************************************************************************)
(* Sessions                                                                *)
(***************************************************************************)

\* q's call is inside the graph
InFlight(q) == run[q].pc \in Nodes

\* C14: two query() calls of one session are never inside the graph
\* together: the later one takes its first step only when the earlier one
\* has finalized or failed.
C14_OneQueryPerSession ==
    \A a \in Queries, b \in Queries :
        (a # b /\ InFlight(a) /\ InFlight(b)) => run[a].session_id # run[b].session_id

\* the graph run on its own from `node` on, against the index as it stands,
\* with the Generator and Corrector texts in `answers` and the Verifier
\* texts in `verdicts`; the RAGResponse it ends with
RECURSIVE Replay(_, _, _, _)
Replay(node, st, answers, verdicts) ==
    CASE node = "retrieve" ->
           Replay(EdgeFrom("retrieve"),
                  retrieve_context(st, search_documents(vectorstore, st.question)),
                  answers, verdicts)
      [] node \in {"generate", "correct"} ->
           IF answers = << >> THEN NoResponse
           ELSE Replay(EdgeFrom(node),
                       IF node = "generate" THEN generate_answer(st, Head(answers))
                       ELSE correct_answer(st, Head(answers)),
                       Tail(answers), verdicts)
      [] node = "verify" ->
           IF verdicts = << >> THEN NoResponse
           ELSE LET after == verify_answer(st, Head(verdicts))
                IN  Replay(should_correct(after, max_correction_iterations,
                                          min_confidence_threshold),
                           after, answers, Tail(verdicts))
      [] node = "finalize" -> RAGResponse(finalize_response(st))

\* the response q's call gives when it runs alone
AloneResponse(q) ==
    Replay("retrieve", initial_state(Asked[q]), run[q].answers, run[q].verdicts)

\* no other call uses q's session
OwnSession(q) ==
    \A o \in Queries \ {q} : run[o].pc = "idle" \/ run[o].session_id # run[q].session_id

\* a step of one call leaves the other call, and the checkpoint of every
\* session but its own, as they were
SessionsApart ==
    \A q \in Queries :
        run'[q] # run[q] =>
            /\ \A o \in Queries \ {q} : run'[o] = run[o]
            /\ \A t \in SessionKeys \ {run'[q].session_id} : memory'[t] = memory[t]

\* C15: calls under different session keys do not affect each other: a
\* call that has a session to itself returns the RAGResponse it returns
\* when run alone on the same index and the same model outputs, and no
\* step of a call changes the other call or another session's checkpoint.
C15_SessionsIndependent ==
    /\ [](\A q \in Queries :
            (run[q].pc = "done" /\ OwnSession(q)) => run[q].response = AloneResponse(q))
    /\ [][SessionsApart]_vars

\* q1 has returned an answer it corrected while q2, in the other session,
\* is in the middle of its loop
C15_Witness ==
    /\ run["q1"].pc = "done" /\ run["q2"].pc = "correct"
    /\ run["q1"].session_id # run["q2"].session_id
    /\ Len(run["q1"].verdicts) >= 2 /\ Len(run["q2"].verdicts) >= 2
    /\ run["q1"].response.answer = "revision"
    /\ memory[run["q2"].session_id].values.question = Asked["q2"]

\* the checkpoint q's session is left with when q's call dies in the graph:
\* none, or the values the last verify that returned left, not finished
FailLeavesVerifiedCheckpoint ==
    \A q \in Queries :
        (InFlight(q) /\ run'[q].pc = "failed") =>
            LET c == memory'[run[q].session_id]
            IN  \/ ~c.present
                \/ /\ run[q].checked
                   /\ c.values = run[q].verified
                   /\ c.next # "done"

\* C16: when a call fails or is cancelled in the middle of the loop, its
\* session's checkpoint afterwards is absent or is the state after the
\* most recent verify that returned, and is not a finished one.
C16_CheckpointAfterFailure == [][FailLeavesVerifiedCheckpoint]_vars


(***************************************************************************)
(* Ingestion: deduplication and failures                                   *)
(***************************************************************************)

\* the chunks of f are in the store
Indexed(store, f) ==
    \A i \in 1..Len(ChunksOf(f)) :
        \E j \in 1..Len(store.docs) : store.docs[j] = ChunksOf(f)[i]

\* f can be read and loaded, and no file ingested so far has its content
NewContent(f) ==
    /\ FileExists(f) /\ load_documents(f).loaded
    /\ \A g \in ingested : ChunksOf(g) # ChunksOf(f)

\* C22: in every state ingestion reaches, a file whose content differs from
\* every file ingested so far is not answered with 'already processed': it
\* is loaded, chunked and added, and the index a following search runs over
\* holds its chunks.
C22_DedupKeyedOnContent ==
    \A f \in Files :
        NewContent(f) =>
            LET out == process_uploaded_file(Processor, f)
            IN  /\ out.result.message # "File already processed"
                /\ out.result.chunks_added = Len(ChunksOf(f))
                /\ Indexed(out.vectorstore, f)

C23_QueryStartsFresh ==
    \A q \in Queries :
        run[q].pc = "retrieve" =>
            /\ run[q].steps = 0
            /\ run[q].state.iteration_count = 0
            /\ run[q].state.corrections_made = << >>
            /\ run[q].state.answer = ""
            /\ run[q].state.confidence = 0
            /\ run[q].state = initial_state(Asked[q])

\* q2 is about to take its first step in the session in which q1 has
\* returned a corrected answer: q1's finished checkpoint was there when q2
\* began, and q2's input is what the session holds now
C23_Witness ==
    /\ run["q1"].pc = "done" /\ run["q2"].pc = "retrieve"
    /\ run["q1"].session_id = run["q2"].session_id
    /\ Len(run["q1"].response.corrections_made) >= 2
    /\ run["q1"].state.iteration_count = 1
    /\ memory[run["q2"].session_id].next = "retrieve"
    /\ memory[run["q2"].session_id].values = run["q2"].state


(***************************************************************************)
(* main.py: the application.  LegalRAGApp() validates the configuration    *)
(* and builds the LegalRAGSystem; its handlers are process_files,          *)
(* query_documents and clear_documents.                                    *)
(***************************************************************************)
\* MIN_CONFIDENCE_THRESHOLD as config.py may be edited to hold it, in
\* tenths: the default and a value above 1.0
AppThresholds == {7, 15}

\* the attributes class Config defines
ConfigAttributes ==
    {"HUGGINGFACE_API_KEY", "GROQ_API_KEY", "LLM_MODEL", "EMBEDDING_MODEL",
     "LLM_TEMPERATURE", "CHUNK_SIZE", "CHUNK_OVERLAP", "MAX_RETRIEVAL_DOCS",
     "MIN_CONFIDENCE_THRESHOLD", "MAX_CORRECTION_ITERATIONS", "PROJECT_ROOT",
     "DATA_DIR", "UPLOADS_DIR", "GRADIO_SHARE", "GRADIO_SERVER_NAME",
     "GRADIO_SERVER_PORT", "LEGAL_DOCUMENTS_TYPES", "MAX_FILE_SIZE_MB"}

\* Config.LEGAL_DOCUMENTS_TYPES
LEGAL_DOCUMENTS_TYPES == {".pdf", ".docx", ".txt"}

\* Config.validate_config: raises ValueError without a Hugging Face key,
\* otherwise makes the directories and returns True
validate_config(key) == IF key THEN "ok" ELSE "ValueError"

\* the application before LegalRAGApp() is called
AppInit ==
    /\ min_confidence_threshold \in AppThresholds
    /\ max_correction_iterations \in 0..MaxIterations
    /\ api_key \in BOOLEAN
    /\ app = "none"
    /\ InitState

\* LegalRAGApp(): validate_config, then the LegalRAGSystem
Construct ==
    /\ app = "none"
    /\ app' = IF validate_config(api_key) = "ok" THEN "running" ELSE "failed"
    /\ UNCHANGED << api_key, uploaded_files, reply, cleared, ingested_before,
                    sessions, config, index, alone >>

\* uploaded_files with the paths it does not hold yet appended
RECURSIVE Track(_, _)
Track(tracked, paths) ==
    IF paths = << >> THEN tracked
    ELSE Track(IF \E i \in 1..Len(tracked) : tracked[i] = Head(paths)
               THEN tracked ELSE Append(tracked, Head(paths)),
               Tail(paths))

\* the paths before the first one validate_file_type turns down
RECURSIVE Accepted(_)
Accepted(paths) ==
    IF paths = << >> \/ Suffix(Head(paths)) \notin LEGAL_DOCUMENTS_TYPES THEN << >>
    ELSE << Head(paths) >> \o Accepted(Tail(paths))

\* process_files(files): reading Config.LEGAL_DOCUMENT_TYPES for the first
\* file raises AttributeError when Config has no such attribute, and the
\* handler returns the error; with the attribute, the files up to the first
\* unsupported one are tracked, and a batch of supported files goes to
\* process_documents
AppProcessFiles(paths) ==
    /\ app = "running"
    /\ IF paths = << >>
       THEN /\ reply' = [handler |-> "process_files", kind |-> "no_files"]
            /\ UNCHANGED << uploaded_files, index >>
       ELSE IF "LEGAL_DOCUMENT_TYPES" \notin ConfigAttributes
       THEN /\ reply' = [handler |-> "process_files", kind |-> "error"]
            /\ UNCHANGED << uploaded_files, index >>
       ELSE IF Accepted(paths) # paths
       THEN /\ reply' = [handler |-> "process_files", kind |-> "unsupported"]
            /\ uploaded_files' = Track(uploaded_files, Accepted(paths))
            /\ UNCHANGED index
       ELSE LET out == process_documents_loop(
                           [vectorstore |-> vectorstore,
                            processed_doc |-> processed_doc], paths)
                ok  == "get_vectorstore_stats" \in DocumentProcessorMethods
            IN  /\ reply' = [handler |-> "process_files",
                             kind |-> IF ok THEN "summary" ELSE "error"]
                /\ uploaded_files' = Track(uploaded_files, paths)
                /\ vectorstore' = out.vectorstore
                /\ processed_doc' = out.processed_doc
                /\ ingested' = ingested \cup out.seen
                /\ batch' = [paths |-> paths, results |-> out.results,
                             total_chunks_added |-> out.total_chunks,
                             returned |-> ok,
                             raised |-> IF ok THEN "" ELSE "AttributeError"]
                /\ UNCHANGED last_result
    /\ UNCHANGED << app, api_key, cleared, ingested_before, sessions, config, alone >>

\* query_documents(question) for caller q: a blank question and an empty
\* uploaded_files are answered at once; otherwise query(question,
\* "default") runs
AppQuery(q, question) ==
    /\ app = "running"
    /\ run[q].pc = "idle"
    /\ IF question = ""
       THEN /\ reply' = [handler |-> "query_documents", kind |-> "enter_question"]
            /\ UNCHANGED sessions
       ELSE IF uploaded_files = << >>
       THEN /\ reply' = [handler |-> "query_documents", kind |-> "upload_first"]
            /\ UNCHANGED sessions
       ELSE LET st == graph_input(memory, "default", initial_state(question))
            IN  /\ reply' = [handler |-> "query_documents", kind |-> "running"]
                /\ run' = [run EXCEPT ![q] =
                             [IdleRun EXCEPT !.pc = "retrieve", !.state = st]]
                /\ memory' = put(memory, "default", st, "retrieve")
    /\ UNCHANGED << app, api_key, uploaded_files, cleared, ingested_before,
                    config, index, alone >>

\* clear_documents(): a new LegalRAGSystem, with a DocumentProcessor and a
\* MemorySaver of its own, and an empty uploaded_files; the calls made so
\* far belong to the LegalRAGSystem they were made on, where a call in
\* flight goes on
ClearDocuments ==
    /\ app = "running"
    /\ vectorstore' = NoStore
    /\ processed_doc' = EmptyDict
    /\ memory' = [t \in SessionKeys |-> NoCheckpoint]
    /\ uploaded_files' = << >>
    /\ reply' = [handler |-> "clear_documents", kind |-> "cleared"]
    /\ run' = [q \in Queries |->
                 IF run[q].pc # "idle" /\ ~run[q].detached
                 THEN [run[q] EXCEPT !.detached = TRUE, !.held = vectorstore]
                 ELSE run[q]]
    /\ cleared' = TRUE
    /\ ingested_before' = ingested
    /\ ingested' = {}
    /\ UNCHANGED << app, api_key, last_result, batch, config, alone >>

\* the caller whose calls the application is followed with
AppCallers == {"q1"}

AppNext ==
    \/ Construct
    \/ \E paths \in PathLists(1) : AppProcessFiles(paths)
    \/ \E q \in AppCallers : \E question \in {"", Asked[q]} : AppQuery(q, question)
    \/ ClearDocuments
    \/ \E f \in Files : app = "running" /\ ProcessUploadedFile(f)
    \/ \E q \in AppCallers, t \in SessionKeys : app = "running" /\ Query(q, t)
    \/ \E q \in AppCallers : RunRetrieve(q)
    \/ \E q \in AppCallers : RunGenerate(q)
    \/ \E q \in AppCallers : RunVerify(q)
    \/ \E q \in AppCallers : RunCorrect(q)
    \/ \E q \in AppCallers : RunFinalize(q)
    \/ \E q \in AppCallers : RunRaise(q)
    \/ \E q \in AppCallers : RunRecursion(q)

AppSpec == AppInit /\ [][AppNext]_vars


(***************************************************************************)
(* Startup and clearing                                                    *)
(***************************************************************************)

\* the threshold is outside [0, 1] or the iteration limit is below 1
ConfigInvalid ==
    \/ min_confidence_threshold \notin 0..10
    \/ max_correction_iterations < 1

\* C21: under an invalid configuration the application is never built and
\* no query ever runs.
C21_InvalidConfigRejected ==
    ConfigInvalid => (app # "running" /\ \A q \in Queries : run[q].pc = "idle")

\* clear_documents has run and nothing was indexed since
AfterClear == cleared /\ ingested = {}

\* q's call was made on the LegalRAGSystem the application holds now
OnCurrentSystem(q) == run[q].pc # "idle" /\ ~run[q].detached

\* after a clear and before the next ingestion that indexes something, the
\* index, the processed-file record and the uploaded-file list are empty
\* and the only checkpoints are of calls made since the clear
ClearedState ==
    AfterClear =>
        /\ vectorstore = NoStore
        /\ processed_doc = EmptyDict
        /\ uploaded_files = << >>
        /\ \A t \in SessionKeys :
              memory[t].present =>
                  \E q \in Queries : OnCurrentSystem(q) /\ run[q].session_id = t

\* in that stretch no query gets past retrieve, and query_documents
\* answers with a message and no answer
ClearedQueries ==
    AfterClear =>
        /\ \A q \in Queries :
              OnCurrentSystem(q) =>
                  /\ run[q].pc \in {"retrieve", "failed"}
                  /\ run[q].steps = 0 /\ run[q].answers = << >>
        /\ reply.handler = "query_documents" =>
              reply.kind \in {"upload_first", "enter_question", "error"}

\* a file indexed before the clear and not since is indexed in full when
\* it is ingested again
ClearedReingest ==
    cleared =>
        \A f \in ingested_before \ ingested :
            LET out == process_uploaded_file(Processor, f)
            IN  /\ out.result.success
                /\ out.result.chunks_added = Len(ChunksOf(f))
                /\ Indexed(out.vectorstore, f)

\* C25: after clear_documents the index, the processed-file record, the
\* uploaded-file list and the session checkpoints are empty; until the
\* next successful ingestion every query is answered with a message and
\* never reaches generate; and a file ingested before the clear is indexed
\* again in full when it is ingested after it.
C25_ClearForgetsEverything ==
    ClearedState /\ ClearedQueries /\ ClearedReingest

====
